---- MODULE Spec2Model ----
(***************************************************************************)
(* Lifecycle of the log4g package (log4g.go): the one-time SetUp in        *)
(* console, direct-file and namespaced-volume mode, Close, and the         *)
(* per-category logging call sites that read the readiness flag.           *)
(*                                                                         *)
(* A string of the program is a TLA+ string; a file path is the sequence   *)
(* of its segments (the empty path is << >>).  Every goroutine is a        *)
(* thread with a program counter; a step of a thread is the code between   *)
(* two accesses to the package-level variables.                            *)
(***************************************************************************)
EXTENDS Integers, Sequences, FiniteSets, TLC

\* ---------------------------------------------------------------- bounds
NumThreads == 2      \* goroutines calling into the package
MaxTime == 2         \* the clock runs from 0 to MaxTime (milliseconds)
MaxDiscard == 1      \* messages a LessLogger may drop in a row in the model

Threads == 1..NumThreads
Never == 0 - 1       \* "no write so far" in the time stamps

\* ------------------------------------------------------------- constants
consoleMode == "console"
varMode == "var"
fileMode == "file"       \* any other LogMode: the default branch of SetUp
defaultHostName == "log4g"
accessFilename == "access.log"
errorFilename == "error.log"
slowFilename == "slow.log"
statFilenameAsAccess == "access.log"
statFilename == "stat.log"
infoPrefix == "[INFO] "
errorPrefix == "[ERROR] "
slowPrefix == "[SLOW]"

ErrLogPathNotSet == "log path must be set"
ErrLogNotInitialized == "log not initialized"
ErrLogNameSpaceNotSet == "log service name must be set"
ErrNewLogger == "NewLogger failed"     \* an I/O error of NewLogger
nil == "nil"                           \* the nil error

\* the package-level writer variables, in declaration order
SinkNames == {"infoLog", "errorLog", "slowLog", "statLog"}
CloseErrOf(v) ==
    CASE v = "infoLog" -> "close infoLog failed"
      [] v = "errorLog" -> "close errorLog failed"
      [] v = "slowLog" -> "close slowLog failed"
      [] OTHER -> "close statLog failed"
CloseErrs == {CloseErrOf(v) : v \in SinkNames}

\* ---------------------------------------------------------------- inputs
Cfg(mode, p, ns, cool, gz, days) ==
    [LogMode |-> mode, Path |-> p, NameSpace |-> ns,
     StackCoolDownMillis |-> cool, Compress |-> gz, KeepDays |-> days]
\* the configurations SetUp is called with
Configs ==
    {Cfg(consoleMode, << >>, "", 0, FALSE, 0),
     Cfg(fileMode, << >>, "", 0, FALSE, 0),
     Cfg(fileMode, <<"logs">>, "", 2, TRUE, 3),
     Cfg(fileMode, <<"logs">>, "", 0, FALSE, 0),
     Cfg(varMode, <<"logs">>, "", 2, FALSE, 3),
     Cfg(varMode, <<"logs">>, "ns", 2, FALSE, 3),
     Cfg(varMode, << >>, "ns", 0, TRUE, 0)}
\* what os.Hostname() may answer: an error, an empty name, a name
HostResults ==
    {[err |-> TRUE, name |-> ""], [err |-> FALSE, name |-> ""],
     [err |-> FALSE, name |-> "host1"]}
\* how many NewLogger calls of one setup succeed before the first fails
OkCounts == 0..4

\* ---------------------------------------------------------------- values
NilWriter == [kind |-> "nil"]
NilLogger == [kind |-> "nil"]

\* logOptions{} zero value
ZeroOptions == [gzipEnabled |-> FALSE, logStackCoolDownMills |-> 0, keepDays |-> 0]

VARIABLES
    writeConsole, infoLog, errorLog, slowLog, statLog, stackLog,
    once, initialized, options,
    now,            \* the clock
    pc, op, rd,     \* per thread: position, running call, flag value loaded
    last,           \* the call that returned last, and what it returned
    \* history
    created,        \* sinks created so far, per writer variable
    closeCount,     \* Close() invocations so far, per writer variable
    readyCount,     \* stores of 1 to initialized so far
    onceRet,        \* what the SetUp call that ran the one-time body returned
    stackOut        \* time of the last stack-trace write, per route

globals ==
    <<writeConsole, infoLog, errorLog, slowLog, statLog, stackLog,
      once, initialized, options>>
history == <<created, closeCount, readyCount, onceRet, stackOut>>
locals == <<pc, op, rd, last>>
vars == <<globals, now, locals, history>>

\* ------------------------------------------------------- path.Join/Clean
Segs(s) == IF s = "" THEN << >> ELSE <<s>>

RECURSIVE CleanSegs(_, _)
CleanSegs(in, out) ==
    IF in = << >> THEN out
    ELSE LET s == Head(in) IN
         IF s = "." \/ s = "" THEN CleanSegs(Tail(in), out)
         ELSE IF s = ".."
              THEN IF out # << >> /\ out[Len(out)] # ".."
                   THEN CleanSegs(Tail(in), SubSeq(out, 1, Len(out) - 1))
                   ELSE CleanSegs(Tail(in), Append(out, ".."))
              ELSE CleanSegs(Tail(in), Append(out, s))

\* path.Clean of a relative path: the empty result is "."
Clean(p) == LET r == CleanSegs(p, << >>) IN IF r = << >> THEN <<".">> ELSE r

RECURSIVE Concat(_)
Concat(elems) == IF elems = << >> THEN << >> ELSE Head(elems) \o Concat(Tail(elems))

\* path.Join: empty elements are ignored, the result is cleaned, and the
\* join of nothing but empty elements is the empty string
Join(elems) == IF Concat(elems) = << >> THEN << >> ELSE Clean(Concat(elems))

\* ------------------------------------------------------------ LogOptions
WithCoolDownMillis(millis) == [opt |-> "WithCoolDownMillis", v |-> millis]
WithKeepDays(days) == [opt |-> "WithKeepDays", v |-> days]
WithGzip == [opt |-> "WithGzip", v |-> 0]

\* opt(&options)
ApplyOption(o, opt) ==
    CASE opt.opt = "WithCoolDownMillis" -> [o EXCEPT !.logStackCoolDownMills = opt.v]
      [] opt.opt = "WithKeepDays" -> [o EXCEPT !.keepDays = opt.v]
      [] OTHER -> [o EXCEPT !.gzipEnabled = TRUE]

RECURSIVE handleOptions(_, _)
handleOptions(o, opts) ==
    IF opts = << >> THEN o
    ELSE handleOptions(ApplyOption(o, Head(opts)), Tail(opts))

\* the opts that setupWithFiles collects from the configuration
CollectOpts(c) ==
    <<WithCoolDownMillis(c.StackCoolDownMillis)>>
    \o (IF c.Compress THEN <<WithGzip>> ELSE << >>)
    \o (IF c.KeepDays > 0 THEN <<WithKeepDays(c.KeepDays)>> ELSE << >>)

\* ----------------------------------------------------------------- sinks
DefaultBackupRule(path, keepDays, gzip) ==
    [filename |-> path, days |-> keepDays, gzip |-> gzip]

\* NewLogger opens the file: it fails on an I/O error (ok = FALSE)
NewLogger(path, rule, gzip, ok) ==
    IF ok THEN [w |-> [kind |-> "file", path |-> path, rule |-> rule, gzip |-> gzip],
                err |-> nil]
    ELSE [w |-> NilWriter, err |-> ErrNewLogger]

createOutputNoGzip(path, o, ok) ==
    IF Len(path) = 0 THEN [w |-> NilWriter, err |-> ErrLogPathNotSet]
    ELSE NewLogger(path, DefaultBackupRule(path, o.keepDays, o.gzipEnabled),
                   FALSE, ok)

createOutput(path, o, ok) ==
    IF Len(path) = 0 THEN [w |-> NilWriter, err |-> ErrLogPathNotSet]
    ELSE NewLogger(path, DefaultBackupRule(path, o.keepDays, o.gzipEnabled),
                   o.gzipEnabled, ok)

\* newLogWriter(log.New(stream, prefix, flags))
newLogWriter(stream, prefix) == [kind |-> "console", stream |-> stream, prefix |-> prefix]

\* NewLessLogger(milliseconds)
NewLessLogger(millis) ==
    [kind |-> "less", threshold |-> millis, lastTime |-> Never, discarded |-> 0]

\* LessLogger: the message passes when the cooldown has elapsed since the
\* last emission (the first one always passes), else it is counted and dropped
LessPasses(l, t) == l.lastTime = Never \/ t - l.lastTime >= l.threshold
LessEmit(l, t) ==
    IF LessPasses(l, t) THEN [l EXCEPT !.lastTime = t, !.discarded = 0]
    ELSE [l EXCEPT !.discarded = @ + 1]

\* a getHostname without the default
getHostnameAsIs(h) == h.name

getHostname(h) == IF h.err \/ h.name = "" THEN defaultHostName ELSE h.name

WriterOf(v) ==
    CASE v = "infoLog" -> infoLog
      [] v = "errorLog" -> errorLog
      [] v = "slowLog" -> slowLog
      [] OTHER -> statLog

\* a sink on which Close() has been invoked
Closed(v) == \E u \in SinkNames : closeCount[u] > 0 /\ WriterOf(u) = WriterOf(v)

\* ------------------------------------------------------------------ Init
Init ==
    /\ writeConsole = FALSE
    /\ infoLog = NilWriter
    /\ errorLog = NilWriter
    /\ slowLog = NilWriter
    /\ statLog = NilWriter
    /\ stackLog = NilLogger
    /\ once = FALSE
    /\ initialized = 0
    /\ options = ZeroOptions
    /\ now = 0
    /\ pc = [t \in Threads |-> "idle"]
    /\ op = [t \in Threads |-> "none"]
    /\ rd = [t \in Threads |-> 0]
    /\ last = [op |-> "none", ret |-> "none"]
    /\ created = [v \in SinkNames |-> 0]
    /\ closeCount = [v \in SinkNames |-> 0]
    /\ readyCount = 0
    /\ onceRet = "none"
    /\ stackOut = [ready |-> Never, fallback |-> Never]

\* the call o of thread t returns r
Return(t, o, r) ==
    /\ pc' = [pc EXCEPT ![t] = "idle"]
    /\ op' = [op EXCEPT ![t] = "none"]
    /\ rd' = [rd EXCEPT ![t] = 0]
    /\ last' = [op |-> o, ret |-> r]

\* the call o of thread t moves on to its step p
Goto(t, o, p) ==
    /\ pc' = [pc EXCEPT ![t] = p]
    /\ op' = [op EXCEPT ![t] = o]
    /\ UNCHANGED last

\* ----------------------------------------------------------------- SetUp
\* a Once that never remembers that it ran
OnceRunsAgain(done) == TRUE

\* sync.Once: Do runs its function when no earlier Do has
OnceRuns(done) == ~done

\* a setupWithFiles that does not look at the path
PathUnchecked(c) == FALSE

\* the guards of setupWithFiles and setupWithVolume
PathNotSet(c) == Len(c.Path) = 0
NameSpaceNotSet(c) == c.NameSpace = ""

\* c.Path = path.Join(c.Path, c.NameSpace, hostname)
VolumePath(c, h) == Join(<<c.Path, Segs(c.NameSpace), Segs(getHostname(h))>>)

\* a setup that builds the LessLogger without the configured cooldown
NoCoolDown(o) == 0

\* the argument of NewLessLogger
StackCoolDown(o) == o.logStackCoolDownMills

\* The check after each createOutput in the closure: if err != nil { return }
ErrorIgnored(err) == FALSE
Failed(err) == err # nil

\* The function setupWithFiles hands to once.Do: the package-level variables
\* after it, and the err it leaves in the caller.  Of the four createOutput
\* calls the first okN succeed.
FilesBody(c, okN) ==
    LET o == handleOptions(options, CollectOpts(c))
        r1 == createOutput(Join(<<c.Path, <<accessFilename>>>>), o, okN >= 1)
        r2 == createOutput(Join(<<c.Path, <<errorFilename>>>>), o, okN >= 2)
        r3 == createOutput(Join(<<c.Path, <<slowFilename>>>>), o, okN >= 3)
        r4 == createOutput(Join(<<c.Path, <<statFilename>>>>), o, okN >= 4)
        s0 == [infoLog |-> infoLog, errorLog |-> errorLog, slowLog |-> slowLog,
               statLog |-> statLog, stackLog |-> stackLog,
               initialized |-> initialized, options |-> o, err |-> nil,
               made |-> {}, stored |-> 0]
        s1 == [s0 EXCEPT !.infoLog = r1.w, !.err = r1.err]
        s2 == [s1 EXCEPT !.errorLog = r2.w, !.err = r2.err, !.made = {"infoLog"}]
        s3 == [s2 EXCEPT !.slowLog = r3.w, !.err = r3.err,
                         !.made = {"infoLog", "errorLog"}]
        s4 == [s3 EXCEPT !.statLog = r4.w, !.err = r4.err,
                         !.made = {"infoLog", "errorLog", "slowLog"}]
    IN  IF Failed(r1.err) THEN s1
        ELSE IF Failed(r2.err) THEN s2
        ELSE IF Failed(r3.err) THEN s3
        ELSE IF Failed(r4.err) THEN s4
        ELSE [s4 EXCEPT !.made = SinkNames,
                        !.stackLog = NewLessLogger(StackCoolDown(o)),
                        !.initialized = 1, !.stored = 1]

\* The function setupWithConsole hands to once.Do
ConsoleBody ==
    LET i == newLogWriter("stdout", infoPrefix) IN
    [infoLog |-> i,
     errorLog |-> newLogWriter("stderr", errorPrefix),
     slowLog |-> newLogWriter("stderr", slowPrefix),
     statLog |-> i, stackLog |-> stackLog,
     initialized |-> 1, options |-> options, err |-> nil,
     made |-> {"infoLog", "errorLog", "slowLog"}, stored |-> 1]

\* the package-level variables become those of s, and once is done
Install(s) ==
    /\ infoLog' = s.infoLog
    /\ errorLog' = s.errorLog
    /\ slowLog' = s.slowLog
    /\ statLog' = s.statLog
    /\ stackLog' = s.stackLog
    /\ initialized' = s.initialized
    /\ options' = s.options
    /\ once' = TRUE
    /\ created' = [v \in SinkNames |-> created[v] + (IF v \in s.made THEN 1 ELSE 0)]
    /\ readyCount' = readyCount + s.stored
    /\ onceRet' = s.err

setupWithFiles(t, c) ==
    IF PathNotSet(c)
    THEN /\ Return(t, "SetUp", ErrLogPathNotSet)
         /\ UNCHANGED <<globals, now, history>>
    ELSE IF OnceRuns(once)
         THEN \E okN \in OkCounts :
                /\ Install(FilesBody(c, okN))
                /\ Return(t, "SetUp", FilesBody(c, okN).err)
                /\ UNCHANGED <<writeConsole, now, closeCount, stackOut>>
         ELSE \* the closure does not run: err is the nil it was declared with
              /\ Return(t, "SetUp", nil)
              /\ UNCHANGED <<globals, now, history>>

setupWithVolume(t, c) ==
    IF NameSpaceNotSet(c)
    THEN /\ Return(t, "SetUp", ErrLogNameSpaceNotSet)
         /\ UNCHANGED <<globals, now, history>>
    ELSE \E h \in HostResults :
            setupWithFiles(t, [c EXCEPT !.Path = VolumePath(c, h)])

\* setupWithConsole up to once.Do: writeConsole = true
setupWithConsole(t) ==
    /\ writeConsole' = TRUE
    /\ Goto(t, "SetUp", "console_once")
    /\ UNCHANGED <<infoLog, errorLog, slowLog, statLog, stackLog, once,
                   initialized, options, now, rd, history>>

\* SetUp(c), whole for the file modes, up to once.Do for the console mode
SetUp(t, c) ==
    /\ pc[t] = "idle"
    /\ IF c.LogMode = consoleMode THEN setupWithConsole(t)
       ELSE IF c.LogMode = varMode THEN setupWithVolume(t, c)
       ELSE setupWithFiles(t, c)

\* once.Do of setupWithConsole, and SetUp's return nil
ConsoleOnce(t) ==
    /\ pc[t] = "console_once"
    /\ IF OnceRuns(once)
       THEN /\ Install(ConsoleBody)
            /\ UNCHANGED <<writeConsole, now, closeCount, stackOut>>
       ELSE UNCHANGED <<globals, now, history>>
    /\ Return(t, "SetUp", nil)

\* ----------------------------------------------------------------- Close
\* a Close that does not look at the readiness flag
AlwaysInitialized(i) == FALSE

NotInitialized(i) == i = 0

ClosePc(v) ==
    CASE v = "infoLog" -> "close_infoLog"
      [] v = "errorLog" -> "close_errorLog"
      [] v = "slowLog" -> "close_slowLog"
      [] OTHER -> "close_statLog"

\* where a Close call goes after the `if` block of writer variable v
AfterClose(v) ==
    CASE v = "infoLog" -> "close_errorLog"
      [] v = "errorLog" -> "close_slowLog"
      [] v = "slowLog" -> "close_statLog"
      [] OTHER -> "return"

\* Close() of a writer: logWriter.Close returns nil, a file sink may fail
WriterClose(w, v, fail) == IF w.kind = "file" /\ fail THEN CloseErrOf(v) ELSE nil

\* if writeConsole { return nil }
CloseCall(t) ==
    /\ pc[t] = "idle"
    /\ IF writeConsole THEN Return(t, "Close", nil)
       ELSE Goto(t, "Close", "close_load") /\ UNCHANGED rd
    /\ UNCHANGED <<globals, now, history>>

\* if atomic.LoadUint32(&initialized) == 0 { return ErrLogNotInitialized }
CloseLoad(t) ==
    /\ pc[t] = "close_load"
    /\ IF NotInitialized(initialized) THEN Return(t, "Close", ErrLogNotInitialized)
       ELSE Goto(t, "Close", "close_store") /\ UNCHANGED rd
    /\ UNCHANGED <<globals, now, history>>

\* atomic.StoreUint32(&initialized, 0)
CloseStore(t) ==
    /\ pc[t] = "close_store"
    /\ initialized' = 0
    /\ Goto(t, "Close", ClosePc("infoLog"))
    /\ UNCHANGED <<writeConsole, infoLog, errorLog, slowLog, statLog, stackLog,
                   once, options, now, rd, history>>

\* if v != nil { if err := v.Close(); err != nil { return err } }, and the
\* final return nil after the block of statLog
CloseSink(t, v, fail) ==
    /\ pc[t] = ClosePc(v)
    /\ LET w == WriterOf(v)
           err == IF w = NilWriter THEN nil ELSE WriterClose(w, v, fail)
       IN /\ closeCount' = IF w = NilWriter THEN closeCount
                           ELSE [closeCount EXCEPT ![v] = @ + 1]
          /\ IF err # nil THEN Return(t, "Close", err)
             ELSE IF AfterClose(v) = "return" THEN Return(t, "Close", nil)
             ELSE Goto(t, "Close", AfterClose(v)) /\ UNCHANGED rd
    /\ UNCHANGED <<globals, now, created, readyCount, onceRet, stackOut>>

\* --------------------------------------------------------------- logging
LogFns ==
    {"Info", "InfoFormat", "Error", "ErrorFormat", "Slow", "SlowFormat",
     "Stat", "StatFormat", "Server", "ServerFormat"}

\* the xxxSync function a facade function calls
SyncOf(fn) ==
    CASE fn \in {"Info", "InfoFormat"} -> "infoSync"
      [] fn \in {"Error", "ErrorFormat"} -> "errorSync"
      [] fn \in {"Slow", "SlowFormat"} -> "slowSync"
      [] fn \in {"Stat", "StatFormat"} -> "statSync"
      [] OTHER -> "stackSync"
SyncFns == {SyncOf(fn) : fn \in LogFns}

\* the writer variable an xxxSync function passes when the flag reads 1
VarOf(sync) ==
    CASE sync = "infoSync" -> "infoLog"
      [] sync = "errorSync" -> "errorLog"
      [] sync = "slowSync" -> "slowLog"
      [] OTHER -> "statLog"

\* output / outputError: a nil writer means log.Print, the fallback
output(v, isNil) ==
    IF isNil \/ WriterOf(v) = NilWriter THEN "fallback"
    ELSE IF WriterOf(v).kind = "console" THEN WriterOf(v).stream
    ELSE IF Closed(v) THEN "file after close"
    ELSE "file"
Written == {"fallback", "stdout", "stderr", "file", "file after close"}

\* the branch an xxxSync function takes on the flag it loaded: TRUE is the
\* branch of the configured writer
AlwaysUsesSink(flag) == TRUE
UsesSink(flag) == flag # 0

\* the facade function calls xxxSync, which loads the readiness flag
LogCall(t, fn) ==
    /\ pc[t] = "idle"
    /\ SyncOf(fn) = "stackSync" /\ stackLog # NilLogger
            => stackLog.discarded < MaxDiscard
    /\ Goto(t, SyncOf(fn), "write")
    /\ rd' = [rd EXCEPT ![t] = initialized]
    /\ UNCHANGED <<globals, now, history>>

\* infoSync, errorSync, slowSync, statSync after the load
SinkWrite(t) ==
    /\ pc[t] = "write"
    /\ op[t] \in SyncFns \ {"stackSync"}
    /\ Return(t, op[t], output(VarOf(op[t]), ~UsesSink(rd[t])))
    /\ UNCHANGED <<globals, now, history>>

\* stackSync after the load: the fallback, or stackLog.Errorf
StackWrite(t) ==
    /\ pc[t] = "write"
    /\ op[t] = "stackSync"
    /\ IF ~UsesSink(rd[t])
       THEN /\ Return(t, op[t], output("errorLog", TRUE))
            /\ stackOut' = [stackOut EXCEPT !.fallback = now]
            /\ UNCHANGED stackLog
       ELSE IF stackLog = NilLogger
       THEN /\ Return(t, op[t], "nil stackLog")
            /\ UNCHANGED <<stackLog, stackOut>>
       ELSE /\ stackLog' = LessEmit(stackLog, now)
            /\ IF LessPasses(stackLog, now)
               THEN /\ Return(t, op[t], output("errorLog", FALSE))
                    /\ stackOut' = [stackOut EXCEPT !.ready = now]
               ELSE /\ Return(t, op[t], "discarded")
                    /\ UNCHANGED stackOut
    /\ UNCHANGED <<writeConsole, infoLog, errorLog, slowLog, statLog, once,
                   initialized, options, now, created, closeCount, readyCount,
                   onceRet>>

\* ----------------------------------------------------------------- clock
\* Only differences of times are read, so the clock starts with the first
\* stack-trace message written.
Tick ==
    /\ now < MaxTime
    /\ stackOut.ready # Never \/ stackOut.fallback # Never
    /\ now' = now + 1
    /\ UNCHANGED <<globals, locals, history>>

\* ------------------------------------------------- the specifications
\* Goroutines interleave at every step.  The configurations are those of the
\* console mode and the direct-file mode, the logging calls those of the four
\* writers, and the clock stands still.
RaceConfigs == {c \in Configs : c.LogMode # varMode /\ (c.Path = << >> \/ c.Compress)}
RaceFns == {"Info", "Error", "Slow", "Stat"}
Next ==
    \/ \E t \in Threads, c \in RaceConfigs : SetUp(t, c)
    \/ \E t \in Threads : ConsoleOnce(t)
    \/ \E t \in Threads : CloseCall(t)
    \/ \E t \in Threads : CloseLoad(t)
    \/ \E t \in Threads : CloseStore(t)
    \/ \E t \in Threads, v \in SinkNames, fail \in BOOLEAN : CloseSink(t, v, fail)
    \/ \E t \in Threads, fn \in RaceFns : LogCall(t, fn)
    \/ \E t \in Threads : SinkWrite(t)

Spec == Init /\ [][Next]_vars

\* One call at a time, made by the first goroutine, with every
\* configuration, every logging function and the clock.
Caller == {t \in Threads : \A u \in Threads : t <= u}
AllIdle == \A t \in Threads : pc[t] = "idle"
NextSeq ==
    \/ \E t \in Caller, c \in Configs : SetUp(t, c)
    \/ \E t \in Caller : ConsoleOnce(t)
    \/ \E t \in Caller : CloseCall(t)
    \/ \E t \in Caller : CloseLoad(t)
    \/ \E t \in Caller : CloseStore(t)
    \/ \E t \in Caller, v \in SinkNames, fail \in BOOLEAN : CloseSink(t, v, fail)
    \/ \E t \in Caller, fn \in LogFns : LogCall(t, fn)
    \/ \E t \in Caller : SinkWrite(t)
    \/ \E t \in Caller : StackWrite(t)
    \/ AllIdle /\ Tick

SpecSeq == Init /\ [][NextSeq]_vars

\* ================================================================ claims
\* c passes the configuration checks of its mode
ValidConfig(c) ==
    \/ c.LogMode = consoleMode
    \/ c.LogMode = varMode /\ c.NameSpace # ""
    \/ c.LogMode \notin {consoleMode, varMode} /\ c.Path # << >>

\* C1: every SetUp call with a valid configuration that returns after the
\* one-time setup has run returns what the call that ran it returned: success
\* after a success, the same error after an error.
C1_LaterSetUpSameOutcome ==
    [][\A t \in Threads :
          /\ once
          /\ \/ pc[t] = "idle" /\ \E c \in Configs : ValidConfig(c) /\ SetUp(t, c)
             \/ ConsoleOnce(t)
          /\ pc'[t] = "idle"
          => last'.ret = onceRet]_vars

\* C2 as stated: once the readiness flag is 1 it is never 0 again.
C2_FlagNeverBackToZero == [][initialized = 1 => initialized' = 1]_vars

\* C2 as amended: the flag is set to 1 at most once, by the one-time setup
\* body; the only other write is the store of 0 by Close, after which the
\* flag is never 1 again.
C2_FlagSetOnceResetByClose ==
    [][initialized' # initialized =>
          IF initialized' = 1
          THEN readyCount = 0 /\ readyCount' = 1 /\ ~once /\ once'
          ELSE \E t \in Threads : CloseStore(t)]_vars

\* C2: the flag was set, Close reset it, and a later SetUp has returned
C2_Witness ==
    /\ initialized = 0
    /\ readyCount = 1
    /\ closeCount["statLog"] = 1
    /\ last = [op |-> "SetUp", ret |-> nil]

\* C3: a Close that ran in the ready state after a file-mode setup has, when
\* it returns, invoked close on all four sinks, also when an earlier close
\* returned an error.
C3_CloseAttemptsAllFour ==
    /\ last.op = "Close"
    /\ last.ret \in CloseErrs \/ (last.ret = nil /\ ~writeConsole)
    => \A v \in SinkNames : closeCount[v] >= 1

\* a Close call of thread t finds the system not ready in this step: at
\* the test of writeConsole, or at the load of the flag
CloseNotReady(t) ==
    /\ initialized = 0
    /\ (CloseCall(t) /\ writeConsole) \/ CloseLoad(t)

\* C4 as stated: a Close before any setup has completed, or after an earlier
\* Close, returns success and changes no state.
C4_CloseNotReadySucceeds ==
    [][\A t \in Threads : CloseNotReady(t) =>
          /\ pc'[t] = "idle"
          /\ last' = [op |-> "Close", ret |-> nil]
          /\ UNCHANGED <<globals, history>>]_vars

\* C4 as amended: a Close that finds the readiness flag 0 changes no state;
\* it returns ErrLogNotInitialized, or success when console mode has been
\* requested.
C4_CloseNotReadyNoOp ==
    [][\A t \in Threads : CloseNotReady(t) =>
          /\ pc'[t] = "idle"
          /\ last' = [op |-> "Close",
                      ret |-> IF pc[t] = "idle" THEN nil ELSE ErrLogNotInitialized]
          /\ UNCHANGED <<globals, history>>]_vars

\* C4: a second Close after one that closed the four sinks
C4_Witness ==
    /\ last = [op |-> "Close", ret |-> ErrLogNotInitialized]
    /\ initialized = 0
    /\ \A v \in SinkNames : closeCount[v] = 1

\* C5: at most one sink is ever created per category, and once the one-time
\* setup has run no step creates or replaces a sink.
C5_OneSinkPerCategory ==
    /\ [](\A v \in SinkNames : created[v] <= 1)
    /\ [][once => UNCHANGED <<infoLog, errorLog, slowLog, statLog, created>>]_vars

\* C5: a console-mode SetUp has returned after a file-mode setup created the
\* four sinks
C5_Witness ==
    /\ \A v \in SinkNames : created[v] = 1
    /\ infoLog.kind = "file"
    /\ writeConsole
    /\ last = [op |-> "SetUp", ret |-> nil]

\* c is rejected by the configuration check of its mode
ConfigError(c) ==
    \/ c.LogMode = varMode /\ c.NameSpace = ""
    \/ c.LogMode \notin {consoleMode, varMode} /\ c.Path = << >>

\* C6: a SetUp call with an empty namespace in namespaced-volume mode, or an
\* empty path in direct-file mode, returns the error of its mode in one step
\* and changes nothing: no sink, the flag, the options and the one-time guard
\* are as before.
C6_ConfigErrorNoEffect ==
    [][\A t \in Threads, c \in Configs :
          ConfigError(c) /\ SetUp(t, c) =>
             /\ pc'[t] = "idle"
             /\ last' = [op |-> "SetUp",
                         ret |-> IF c.LogMode = varMode THEN ErrLogNameSpaceNotSet
                                 ELSE ErrLogPathNotSet]
             /\ UNCHANGED <<globals, history>>]_vars

\* C6: a SetUp was rejected for its path and the one-time setup has not run
C6_Witness ==
    /\ last = [op |-> "SetUp", ret |-> ErrLogPathNotSet]
    /\ ~once
    /\ \A v \in SinkNames : created[v] = 0

\* C7: after a console-mode SetUp ran the one-time setup, every logging call
\* of every category, the stack-trace category included, ends with a write to
\* a standard stream.
C7_ConsoleLoggingReachesStream ==
    infoLog.kind = "console" /\ last.op \in SyncFns
        => last.ret \in {"stdout", "stderr"}

\* C8: when the four file sinks exist and the flag has been set, a Close that
\* returns success has invoked close on all four sinks, whatever SetUp calls
\* came before it.
C8_CloseTearsDownAll ==
    /\ last = [op |-> "Close", ret |-> nil]
    /\ readyCount = 1
    /\ \A v \in SinkNames : WriterOf(v).kind = "file"
    => \A v \in SinkNames : closeCount[v] >= 1

\* the time of the last stack-trace message written on either route
LastStackOut ==
    IF stackOut.ready >= stackOut.fallback THEN stackOut.ready ELSE stackOut.fallback

\* C9 as stated: with a cooldown C > 0 configured, a stack-trace message is
\* written only when none was written in the C milliseconds before, whatever
\* the readiness flag is.
C9_StackRateBoundedAlways ==
    [][\A t \in Threads :
          /\ StackWrite(t)
          /\ last'.ret \in Written
          /\ options.logStackCoolDownMills > 0
          => LastStackOut = Never
             \/ now - LastStackOut >= options.logStackCoolDownMills]_vars

\* C9 as amended: with a cooldown C > 0, a Server call that read the flag as 1
\* after a file-mode setup writes only when no such call has written in the C
\* milliseconds before; a call that read the flag as 0 writes to the fallback
\* writer every time.
C9_StackRateBoundedWhenReady ==
    [][\A t \in Threads : StackWrite(t) =>
          IF rd[t] = 0 THEN last'.ret = "fallback"
          ELSE /\ last'.ret \in Written /\ options.logStackCoolDownMills > 0
                  => stackOut.ready = Never
                     \/ now - stackOut.ready >= options.logStackCoolDownMills
               /\ last'.ret \in Written => stackOut'.ready = now]_vars

\* C9: in the ready state with a cooldown of 2 a message was written, and a
\* later one of the same window was dropped
C9_Witness ==
    /\ initialized = 1
    /\ options.logStackCoolDownMills = 2
    /\ last = [op |-> "stackSync", ret |-> "discarded"]
    /\ stackOut.ready # Never
    /\ now - stackOut.ready = 1

\* the host identifier the namespaced-volume mode is to use
HostOrDefault(h) == IF h.err \/ h.name = "" THEN "log4g" ELSE h.name

\* C10: a namespaced-volume SetUp with a namespace never returns the errors
\* "path not set" or "namespace not set", whatever os.Hostname answers; the
\* path it hands to the file setup is <path>/<namespace>/<host>, where host is
\* the resolved name or, when the resolution fails, "log4g", and the sinks it
\* creates lie under such a path.
C10_VolumeHostFallback ==
    [][\A t \in Threads, c \in Configs :
          /\ c.LogMode = varMode /\ c.NameSpace # ""
          /\ pc' = pc /\ now' = now /\ last'.op = "SetUp"
          /\ SetUp(t, c)
          =>
             /\ last'.ret \in {nil, ErrNewLogger}
             /\ \A h \in HostResults :
                   VolumePath(c, h) = c.Path \o <<c.NameSpace, HostOrDefault(h)>>
             /\ ~once /\ infoLog' # NilWriter =>
                   \E h \in HostResults :
                      infoLog'.path =
                         c.Path \o <<c.NameSpace, HostOrDefault(h), accessFilename>>]_vars

\* C10: the sinks of a namespaced-volume setup with an empty path, made when
\* the host name could not be resolved
C10_Witness ==
    /\ initialized = 1
    /\ infoLog.kind = "file"
    /\ infoLog.path = <<"ns", "log4g", "access.log">>
    /\ last = [op |-> "SetUp", ret |-> nil]

\* C11: a SetUp call made after the one-time setup has run changes none of
\* the package-level variables: the four writers, stackLog, options, the
\* readiness flag, the once guard and writeConsole.
C11_LaterSetUpNoEffect ==
    [][\A t \in Threads :
          /\ once
          /\ (\E c \in Configs : SetUp(t, c)) \/ ConsoleOnce(t)
          => UNCHANGED globals]_vars

\* Two categories share a writer: both variables hold the same existing writer
Shared(u, v) == u # v /\ WriterOf(u) # NilWriter /\ WriterOf(u) = WriterOf(v)

\* C12 (as stated): in every reachable state and every startup mode the
\* writers of the four categories are pairwise distinct, so a stat write
\* never goes through the access writer.
C12_WritersPairwiseDistinct ==
    \A u, v \in SinkNames : ~Shared(u, v)

\* C12 (amended): file writers are pairwise distinct in every reachable
\* state; the only writer two categories share is the console writer of
\* access, which stat uses too.
C12_OnlyConsoleStatShared ==
    \A u, v \in SinkNames :
        Shared(u, v) => /\ {u, v} = {"infoLog", "statLog"}
                        /\ WriterOf(u).kind = "console"

\* a file-mode setup created four distinct sinks and a stat write reached
\* the stat sink
C12_Witness ==
    /\ initialized = 1
    /\ \A v \in SinkNames : WriterOf(v).kind = "file"
    /\ Cardinality({WriterOf(v) : v \in SinkNames}) = 4
    /\ last = [op |-> "statSync", ret |-> "file"]

\* The retention settings a file sink was created with
SinkPolicy(w) == [keepDays |-> w.rule.days, gzipEnabled |-> w.gzip]

\* C13: options is written only by the one-time setup, before any sink
\* exists; every file sink carries the keepDays and the compression flag
\* that options holds, in its backup rule and in its own flag; no later
\* SetUp, Close or logging step changes options.
C13_OnePolicyForAllSinks ==
    /\ [](\A v \in SinkNames :
            WriterOf(v).kind = "file" =>
                /\ SinkPolicy(WriterOf(v)) =
                       [keepDays |-> options.keepDays,
                        gzipEnabled |-> options.gzipEnabled]
                /\ WriterOf(v).rule.gzip = options.gzipEnabled)
    /\ [][options' # options =>
              /\ ~once /\ once'
              /\ \A v \in SinkNames : created[v] = 0 /\ WriterOf(v) = NilWriter]_vars

\* four sinks were created with 3 keep-days and compression, the log was
\* closed, and a later SetUp returned without changing the policy
C13_Witness ==
    /\ \A v \in SinkNames :
          /\ WriterOf(v).kind = "file"
          /\ SinkPolicy(WriterOf(v)) = [keepDays |-> 3, gzipEnabled |-> TRUE]
          /\ closeCount[v] = 1
    /\ options.keepDays = 3 /\ options.gzipEnabled
    /\ last = [op |-> "SetUp", ret |-> nil]

\* C14: whenever the readiness flag is 1 all four category writers exist;
\* a file-mode setup in which a sink could not be created leaves the flag 0
\* for good, and every logging call that returns after it wrote to the
\* fallback writer.
C14_ReadyOnlyAfterFullSetup ==
    /\ initialized = 1 => \A v \in SinkNames : WriterOf(v) # NilWriter
    /\ onceRet \notin {"none", nil} =>
          /\ initialized = 0 /\ readyCount = 0
          /\ \A t \in Threads : pc[t] = "write" => rd[t] = 0
          /\ last.op \in SyncFns => last.ret = "fallback"

\* the third sink could not be created: two sinks exist, the flag is 0 and
\* an error-category write went to the fallback writer
C14_Witness ==
    /\ onceRet = ErrNewLogger
    /\ infoLog # NilWriter /\ errorLog # NilWriter /\ slowLog = NilWriter
    /\ initialized = 0
    /\ last = [op |-> "errorSync", ret |-> "fallback"]

\* C15: under any interleaving of Info, Error, Slow and Stat calls with a
\* concurrent Close, no logging call writes to a sink on which Close has
\* already invoked close.
C15_NoWriteAfterClose ==
    last.op \in SyncFns => last.ret # "file after close"

\* C16: under any interleaving of concurrent Close calls in the ready state
\* close is invoked at most once on each sink: one Close shuts down and the
\* others return ErrLogNotInitialized.
C16_CloseOncePerSink ==
    \A v \in SinkNames : closeCount[v] <= 1

\* C17: after a file-mode setup failed inside the one-time body, a Close that
\* has returned has closed every sink the failed setup had created.
C17_FailedSetUpSinksClosed ==
    onceRet = ErrNewLogger /\ last.op = "Close" =>
        \A v \in SinkNames : created[v] > 0 => closeCount[v] > 0

\* A Close has moved the readiness flag from 1 to 0
ShutDown == readyCount > 0 /\ initialized = 0

\* C18: once a Close has moved the readiness flag from 1 to 0, no step sets
\* it to 1 again or creates or replaces a writer, every logging call that
\* starts afterwards loads 0, and every call that loaded 0 writes to the
\* fallback writer, never to a closed sink.
C18_ShutdownIsTerminal ==
    [][ShutDown =>
          /\ initialized' = 0
          /\ UNCHANGED <<infoLog, errorLog, slowLog, statLog, stackLog, created>>
          /\ \A t \in Threads :
                /\ pc[t] = "idle" /\ pc'[t] = "write" => rd'[t] = 0
                /\ pc[t] = "write" /\ rd[t] = 0 /\ pc'[t] = "idle"
                       => last'.ret = "fallback"]_vars

\* after a shutdown closed the slow sink, a slow-category call went to the
\* fallback writer
C18_Witness ==
    /\ ShutDown
    /\ closeCount["slowLog"] = 1
    /\ last = [op |-> "slowSync", ret |-> "fallback"]
====
